---- MODULE Spec2Model ----
(***************************************************************************)
(* pyPDFA.py: batch_convert and the helpers it calls, as a state machine   *)
(* over a small file system.  A path is a sequence of names; <<>> is the   *)
(* directory that holds the input, output and error trees.                 *)
(***************************************************************************)
EXTENDS Integers, Sequences, FiniteSets, TLC

\* ------------------------------------------------------------------ bounds
\* how many files another process may hold open (unlink / rename of such a
\* file raises PermissionError)
MaxLocked == 1
\* how many invalid answers the user may type at one prompt
MaxInvalid == 1

\* ------------------------------------------------------------------ paths
output_dir == <<"PDFA_OUT">>
error_dir == <<"PDF_Not_Converted">>
\* the production input directory, and a caller-chosen one inside a wrapper
InputDirs == {<<"PDFA_IN">>, <<"W", "IN">>}

\* files that may lie under input_dir at the start (relative paths), in the
\* order the directory walk meets them: a directory's files, then its
\* sub-directories
EnumOrder == << <<"a.pdf">>, <<"A", "notes.txt">>, <<"A", "B", "c.pdf">> >>
InputCands == {EnumOrder[i] : i \in 1..Len(EnumOrder)}
\* an empty directory that may lie under input_dir at the start
ExtraDirCands == {<<"A", "PDFA_IN_old">>}
\* what an earlier run may have left in the output and error trees
StaleOutputs == {{}, {<<"A", "B", "c.pdf">>}}
StaleErrors == {{}, {<<"old.pdf">>}}

Parent(p) == IF Len(p) = 0 THEN p ELSE SubSeq(p, 1, Len(p) - 1)
Name(p) == IF Len(p) = 0 THEN "" ELSE p[Len(p)]
IsPrefix(d, p) == Len(d) <= Len(p) /\ SubSeq(p, 1, Len(d)) = d
Under(p, d) == IsPrefix(d, p) /\ Len(p) > Len(d)
relative_to(p, d) == SubSeq(p, Len(d) + 1, Len(p))
\* d and every ancestor of d: what mkdir(parents=True, exist_ok=True) makes
WithParents(d) == {SubSeq(d, 1, k) : k \in 0..Len(d)}

\* fnmatch of the name against '*.pdf'
MatchPdf(name) == name \in {"a.pdf", "c.pdf"}
\* "PDFA_IN" in name
ContainsPDFA_IN(name) == name \in {"PDFA_IN", "PDFA_IN_old"}

\* ------------------------------------------------------------------ state
VARIABLES
    input_dir,        \* batch_convert's input_dir argument
    dirs,             \* the directories that exist
    files,            \* the files that exist
    locked,           \* files held open elsewhere: unlink and rename fail
    pc,               \* where batch_convert is
    prompt,           \* check_and_clear_directory: the last input() and what it led to
    invalid,          \* invalid answers typed at the current prompt
    todo,             \* what the rglob generator of the loop has still to yield
    total_documents,
    document_index,
    has_errors,
    source_file,      \* the loop variable
    file_size,        \* st_size of source_file, in bytes
    timeout_seconds,
    process,          \* relative path -> state of the Popen object made for it
    tool,             \* what the external tool did for source_file
    success,          \* what convert_to_pdfa gave for source_file
    launches,         \* relative path -> number of Popen calls
    results,          \* relative path -> what convert_to_pdfa returned
    handled,          \* the source files the loop has taken, in order
    enumerated,       \* the rglob enumeration taken at line 371
    red_removed,      \* directories remove_empty_directories has removed
    files0, dirs0     \* the file system when batch_convert was called

vars == <<input_dir, dirs, files, locked, pc, prompt, invalid, todo, total_documents,
          document_index, has_errors, source_file, file_size, timeout_seconds, process,
          tool, success, launches, results, handled, enumerated, red_removed,
          files0, dirs0>>

Pdfs == {r \in InputCands : MatchPdf(Name(r))}
NoPrompt == [dir |-> <<>>, response |-> <<>>, verdict |-> "none"]
NoTool == [outcome |-> "none", output_exists |-> FALSE]

\* ------------------------------------------------------------ file system
Children(ds, fs, d) == {x \in ds \cup fs : Parent(x) = d /\ x # d}
IsEmptyDir(ds, fs, d) == Children(ds, fs, d) = {}

\* safe_remove over a set: Path.unlink of each, a failure logged and swallowed
safe_remove(fs, gone) == fs \ {f \in gone : f \notin locked}

\* the rmdir calls of a bottom-up os.walk of top, deepest level first: a
\* directory below top goes when it is empty by then, unless keepNamed and its
\* name contains "PDFA_IN"
RECURSIVE WalkRmdir(_, _, _, _, _)
WalkRmdir(ds, fs, top, level, keepNamed) ==
    IF level <= Len(top) THEN ds
    ELSE LET gone == {d \in ds : /\ Under(d, top)
                                  /\ Len(d) = level
                                  /\ ~(keepNamed /\ ContainsPDFA_IN(Name(d)))
                                  /\ IsEmptyDir(ds, fs, d)}
         IN WalkRmdir(ds \ gone, fs, top, level - 1, keepNamed)

Depth(ds) == IF ds = {} THEN 0 ELSE CHOOSE n \in {Len(d) : d \in ds} : \A d \in ds : Len(d) <= n

safe_rmtree_files(fs, directory) == safe_remove(fs, {f \in fs : Under(f, directory)})
safe_rmtree_dirs(ds, fs, directory) ==
    WalkRmdir(ds, safe_rmtree_files(fs, directory), directory, Depth(ds), FALSE)

clear_input_files(fs, directory) == safe_remove(fs, {f \in fs : Under(f, directory)})
clear_input_dirs(ds, fs, directory) ==
    WalkRmdir(ds, clear_input_files(fs, directory), directory, Depth(ds), TRUE)

\* the directories left by remove_empty_directories(path, root_dir)
RECURSIVE remove_empty_directories(_, _, _, _)
remove_empty_directories(ds, fs, path, root_dir) ==
    IF path \in ds /\ IsEmptyDir(ds, fs, path) /\ Name(path) # "PDFA_IN"
    THEN IF Parent(path) # root_dir
         THEN remove_empty_directories(ds \ {path}, fs, Parent(path), root_dir)
         ELSE ds \ {path}
    ELSE ds

\* input_dir.rglob('*.pdf') as a sequence
rglob_pdf(fs, directory) ==
    LET all == [i \in 1..Len(EnumOrder) |-> directory \o EnumOrder[i]]
    IN SelectSeq(all, LAMBDA p : p \in fs /\ MatchPdf(Name(p)))

\* ------------------------------------------------------------------- init
LockCands(d) ==
    {d \o r : r \in InputCands} \cup {output_dir \o r : r \in Pdfs}
      \cup {error_dir \o <<"old.pdf">>}

Init ==
    /\ input_dir \in InputDirs
    /\ \E present \in SUBSET InputCands, extra \in SUBSET ExtraDirCands,
          so \in StaleOutputs, se \in StaleErrors :
         /\ files = {input_dir \o r : r \in present}
                      \cup {output_dir \o r : r \in so} \cup {error_dir \o r : r \in se}
         /\ dirs = UNION {WithParents(Parent(f)) : f \in files}
                      \cup UNION {WithParents(input_dir \o d) : d \in extra}
                      \cup WithParents(input_dir) \cup WithParents(output_dir)
    /\ locked \in {l \in SUBSET LockCands(input_dir) : Cardinality(l) <= MaxLocked}
    /\ pc = "check_output"
    /\ prompt = NoPrompt
    /\ invalid = 0
    /\ todo = <<>>
    /\ total_documents = 0
    /\ document_index = 0
    /\ has_errors = FALSE
    /\ source_file = <<>>
    /\ file_size = 0
    /\ timeout_seconds = 0
    /\ process = [r \in Pdfs |-> "none"]
    /\ tool = NoTool
    /\ success = "none"
    /\ launches = [r \in Pdfs |-> 0]
    /\ results = [r \in Pdfs |-> "none"]
    /\ handled = <<>>
    /\ enumerated = <<>>
    /\ red_removed = {}
    /\ files0 = files
    /\ dirs0 = dirs

\* ------------------------------------------------- check_and_clear_directory
\* what the user may type at the prompt, as characters
RawAnswers == {<<>>, <<" ">>, <<"Y">>, <<" ", "y", " ">>, <<"y", "s", "e">>,
               <<"Y", "e", "s">>, <<"n">>, <<"N", "O">>, <<"n", "o", " ">>, <<"x">>}

\* str.strip()
RECURSIVE lstrip(_)
lstrip(s) == IF s # <<>> /\ Head(s) = " " THEN lstrip(Tail(s)) ELSE s
RECURSIVE rstrip(_)
rstrip(s) == IF s # <<>> /\ s[Len(s)] = " " THEN rstrip(SubSeq(s, 1, Len(s) - 1)) ELSE s
strip(s) == rstrip(lstrip(s))

\* str.lower()
lower_char(c) ==
    CASE c = "Y" -> "y" [] c = "N" -> "n" [] c = "O" -> "o" [] c = "E" -> "e"
      [] c = "S" -> "s" [] c = "X" -> "x" [] OTHER -> c
lower(s) == [i \in 1..Len(s) |-> lower_char(s[i])]

\* the tuples the response is tested against
YesResponses == {<<"y">>, <<"y", "s", "e">>, <<>>}
NoResponses == {<<"n">>, <<"n", "o">>}

\* one pass of check_and_clear_directory(directory): the directory is missing
\* or empty and the call returns True, or one input() is read and acted on
check_and_clear_directory(directory, next) ==
    IF directory \notin dirs \/ IsEmptyDir(dirs, files, directory)
    THEN /\ pc' = next
         /\ invalid' = 0
         /\ UNCHANGED <<files, dirs, prompt>>
    ELSE \E raw \in RawAnswers :
           LET response == lower(strip(raw)) IN
           IF response \in YesResponses
           THEN /\ files' = safe_rmtree_files(files, directory)
                /\ dirs' = safe_rmtree_dirs(dirs, files, directory)
                /\ prompt' = [dir |-> directory, response |-> response, verdict |-> "clear"]
                /\ invalid' = 0
                /\ pc' = next
           ELSE IF response \in NoResponses
           THEN /\ prompt' = [dir |-> directory, response |-> response, verdict |-> "abort"]
                /\ invalid' = 0
                /\ pc' = "aborted"
                /\ UNCHANGED <<files, dirs>>
           ELSE /\ invalid < MaxInvalid
                /\ invalid' = invalid + 1
                /\ prompt' = [dir |-> directory, response |-> response, verdict |-> "invalid"]
                /\ UNCHANGED <<files, dirs, pc>>

loopVars == <<todo, total_documents, document_index, has_errors, source_file, file_size,
              timeout_seconds, process, tool, success, launches, results, handled,
              enumerated, red_removed>>
envVars == <<input_dir, locked, files0, dirs0>>

\* batch_convert, line 363
CheckOutputDir ==
    /\ pc = "check_output"
    /\ check_and_clear_directory(output_dir, "check_error")
    /\ UNCHANGED <<loopVars, envVars>>

\* batch_convert, line 365
CheckErrorDir ==
    /\ pc = "check_error"
    /\ check_and_clear_directory(error_dir, "check_input")
    /\ UNCHANGED <<loopVars, envVars>>

\* total_documents = sum(1 for _ in input_dir.rglob('*.pdf'))
count_documents_glob(fs, directory) ==
    Cardinality({f \in fs : Parent(f) = directory /\ MatchPdf(Name(f))})
count_documents(fs, directory) == Len(rglob_pdf(fs, directory))

\* batch_convert, lines 367-374
CheckInputDir ==
    /\ pc = "check_input"
    /\ prompt' = NoPrompt
    /\ IF input_dir \notin dirs \/ IsEmptyDir(dirs, files, input_dir)
       THEN /\ pc' = "nofiles"
            /\ UNCHANGED <<todo, total_documents, enumerated>>
       ELSE /\ total_documents' = count_documents(files, input_dir)
            /\ todo' = rglob_pdf(files, input_dir)
            /\ enumerated' = rglob_pdf(files, input_dir)
            /\ pc' = "loop"
    /\ UNCHANGED <<files, dirs, invalid, document_index, has_errors, source_file, file_size,
                   timeout_seconds, process, tool, success, launches, results, handled,
                   red_removed, envVars>>

\* ----------------------------------------------------------- convert_to_pdfa
KB == 1024
\* st_size values stat() may give, in bytes: each threshold of get_timeout,
\* one byte below it, and the two ends
SizeSamples == {0, 150000 * KB - 1, 150000 * KB, 300000 * KB - 1, 300000 * KB,
                600000 * KB - 1, 600000 * KB, 900000 * KB - 1, 900000 * KB,
                1000000 * KB}

\* get_timeout(st_size / 1024): file_size_kb < n is st_size < n * 1024
get_timeout_le(st_size) ==
    IF st_size <= 150000 * KB THEN 480
    ELSE IF st_size < 300000 * KB THEN 900
    ELSE IF st_size < 600000 * KB THEN 2400
    ELSE IF st_size < 900000 * KB THEN 3600
    ELSE 5400
get_timeout(st_size) ==
    IF st_size < 150000 * KB THEN 480
    ELSE IF st_size < 300000 * KB THEN 900
    ELSE IF st_size < 600000 * KB THEN 2400
    ELSE IF st_size < 900000 * KB THEN 3600
    ELSE 5400

\* if process and process.poll() is None: process.terminate(); process.wait()
terminate_skipped(p) == p
terminate_wait(p) == IF p = "running" THEN "exited" ELSE p

\* move_to_error_directory: the files and the directories it leaves.  The
\* unlink of a leftover output, the mkdir and the move are in one try block:
\* the first that raises ends the call.  moves says whether shutil.move can
\* write the destination.
error_path(source_path) == error_dir \o relative_to(source_path, input_dir)
unlink_raises(fs, path) == path \in fs /\ path \in locked
move_to_error_files_keep(fs, source_path, output_path, moves) ==
    IF unlink_raises(fs, output_path) THEN fs
    ELSE IF moves /\ source_path \notin locked
         THEN (fs \ {source_path}) \cup {error_path(source_path)}
         ELSE fs
move_to_error_files(fs, source_path, output_path, moves) ==
    IF unlink_raises(fs, output_path) THEN fs
    ELSE IF moves /\ source_path \notin locked
         THEN ((fs \ {output_path}) \ {source_path}) \cup {error_path(source_path)}
         ELSE fs \ {output_path}
move_to_error_dirs(ds, fs, source_path, output_path) ==
    IF unlink_raises(fs, output_path) THEN ds
    ELSE ds \cup WithParents(Parent(error_path(source_path)))

\* what the external tool can do once started
Outcomes == {"exit0", "exit_nonzero", "timeout", "error"}

\* convert_to_pdfa from process.communicate on, for one outcome of the tool:
\* wrote says whether the tool left a file at output_path
ConvertRest(outcome, wrote, moves, source_path, output_path) ==
    LET fs1 == IF wrote THEN files \cup {output_path} ELSE files
        failed == [files |-> move_to_error_files(fs1, source_path, output_path, moves),
                   dirs |-> move_to_error_dirs(dirs, fs1, source_path, output_path),
                   success |-> "False"]
        fs2 == fs1 \ {output_path}
    IN CASE outcome = "exit0" ->
              [files |-> fs1, dirs |-> dirs, success |-> "True"]
         [] outcome = "exit_nonzero" ->
              IF output_path \in fs1
              THEN [files |-> fs1, dirs |-> dirs, success |-> "True"]
              ELSE failed
         [] outcome = "timeout" ->
              IF unlink_raises(fs1, output_path)
              THEN [files |-> fs1, dirs |-> dirs, success |-> "raised"]
              ELSE [files |-> move_to_error_files(fs2, source_path, output_path, moves),
                    dirs |-> move_to_error_dirs(dirs, fs2, source_path, output_path),
                    success |-> "False"]
         [] OTHER -> failed

\* the process after communicate: it has exited, or communicate raised and
\* it is still running
after_communicate(outcome) ==
    IF outcome \in {"exit0", "exit_nonzero"} THEN "exited" ELSE "running"

\* the loop takes the next source file: lines 376-380, and convert_to_pdfa
\* up to Popen.  When opening the log or Popen raises, no process exists and
\* the except Exception handler ends the call.
StartFile ==
    /\ pc = "loop"
    /\ todo # <<>>
    /\ LET src == Head(todo)
           relative_path == relative_to(src, input_dir)
           output_file == output_dir \o relative_path
           ds1 == dirs \cup WithParents(Parent(output_file))
       IN /\ source_file' = src
          /\ document_index' = document_index + 1
          /\ handled' = Append(handled, src)
          /\ \E started \in BOOLEAN, moves \in BOOLEAN, st_size \in SizeSamples :
               IF started
               THEN /\ file_size' = st_size
                    /\ timeout_seconds' = get_timeout(st_size)
                    /\ process' = [process EXCEPT ![relative_path] = "running"]
                    /\ launches' = [launches EXCEPT ![relative_path] = @ + 1]
                    /\ dirs' = ds1
                    /\ pc' = "communicate"
                    /\ UNCHANGED <<files, tool, success, results>>
               ELSE /\ files' = move_to_error_files(files, src, output_file, moves)
                    /\ dirs' = move_to_error_dirs(ds1, files, src, output_file)
                    /\ tool' = [outcome |-> "not_started",
                                output_exists |-> output_file \in files]
                    /\ success' = "False"
                    /\ results' = [results EXCEPT ![relative_path] = "False"]
                    /\ pc' = "returned"
                    /\ UNCHANGED <<file_size, timeout_seconds, process, launches>>
    /\ UNCHANGED <<prompt, invalid, todo, total_documents, has_errors, enumerated,
                   red_removed, envVars>>

\* process.communicate(timeout=timeout_seconds) and the rest of
\* convert_to_pdfa: lines 255-313
Communicate ==
    /\ pc = "communicate"
    /\ LET relative_path == relative_to(source_file, input_dir)
           output_file == output_dir \o relative_path
       IN \E outcome \in Outcomes, wrote \in BOOLEAN, moves \in BOOLEAN :
            LET r == ConvertRest(outcome, wrote, moves, source_file, output_file) IN
            /\ files' = r.files
            /\ dirs' = r.dirs
            /\ success' = r.success
            /\ tool' = [outcome |-> outcome,
                        output_exists |-> wrote \/ output_file \in files]
            /\ process' = [process EXCEPT
                             ![relative_path] = terminate_wait(after_communicate(outcome))]
            /\ results' = [results EXCEPT ![relative_path] = r.success]
            /\ pc' = IF r.success = "raised" THEN "crashed" ELSE "returned"
    /\ file_size' = 0
    /\ timeout_seconds' = 0
    /\ UNCHANGED <<prompt, invalid, todo, total_documents, document_index, has_errors,
                   source_file, launches, handled, enumerated, red_removed, envVars>>

\* ------------------------------------------------------ batch_convert's loop
\* lines 389-394: a source that converted is deleted (an unlink that raises
\* ends batch_convert), then the emptied directories are removed
Relocate ==
    /\ pc = "returned"
    /\ IF success = "True" /\ unlink_raises(files, source_file)
       THEN /\ pc' = "crashed"
            /\ UNCHANGED <<files, dirs, has_errors, todo, red_removed, tool, success>>
       ELSE LET fs1 == IF success = "True" THEN files \ {source_file} ELSE files
                ds1 == remove_empty_directories(dirs, fs1, Parent(source_file), input_dir)
            IN /\ files' = fs1
               /\ dirs' = ds1
               /\ red_removed' = red_removed \cup (dirs \ ds1)
               /\ has_errors' = (has_errors \/ success = "False")
               /\ todo' = Tail(todo)
               /\ tool' = NoTool
               /\ success' = "none"
               /\ pc' = "loop"
    /\ UNCHANGED <<prompt, invalid, total_documents, document_index, source_file,
                   file_size, timeout_seconds, process, launches, results, handled,
                   enumerated, envVars>>

\* line 375: the rglob generator is resumed after the directory it was
\* listing has been removed; pathlib before Python 3.12 then raises
\* FileNotFoundError from scandir, later versions go on
IteratorRaises ==
    /\ pc = "loop"
    /\ handled # <<>>
    /\ Parent(source_file) \notin dirs
    /\ pc' = "crashed"
    /\ UNCHANGED <<files, dirs, prompt, invalid, loopVars, envVars>>

\* lines 396-397: the loop is over
ClearInput ==
    /\ pc = "loop"
    /\ todo = <<>>
    /\ files' = clear_input_files(files, input_dir)
    /\ dirs' = clear_input_dirs(dirs, files, input_dir)
    /\ pc' = "done"
    /\ UNCHANGED <<prompt, invalid, loopVars, envVars>>

Next ==
    \/ CheckOutputDir
    \/ CheckErrorDir
    \/ CheckInputDir
    \/ StartFile
    \/ Communicate
    \/ Relocate
    \/ IteratorRaises
    \/ ClearInput

Spec == Init /\ [][Next]_vars

\* ----------------------------------------------------------------- claims
rel(p) == relative_to(p, input_dir)
Running == {r \in Pdfs : process[r] = "running"}
ClaimedTimeout(st_size) ==
    CASE st_size < 150000 * KB -> 480
      [] st_size >= 150000 * KB /\ st_size < 300000 * KB -> 900
      [] st_size >= 300000 * KB /\ st_size < 600000 * KB -> 2400
      [] st_size >= 600000 * KB /\ st_size < 900000 * KB -> 3600
      [] OTHER -> 5400

\* C1: every source for which convert_to_pdfa returned False lies at
\* error_dir/r and no longer under input_dir once batch_convert has completed,
\* and is never gone from the input tree without being in the error tree
C1_FailureRelocation ==
    \A r \in Pdfs :
      results[r] = "False" =>
        /\ (input_dir \o r \notin files => error_dir \o r \in files)
        /\ (pc = "done" => error_dir \o r \in files /\ input_dir \o r \notin files)

\* C2: every source for which convert_to_pdfa returned True is gone from the
\* input tree and has a file at output_dir/r once batch_convert has completed
C2_SuccessRelocation ==
    pc = "done" =>
      \A r \in Pdfs :
        results[r] = "True" => input_dir \o r \notin files /\ output_dir \o r \in files

\* C3: convert_to_pdfa returns True exactly when the tool finished in time with
\* exit code 0 or with a non-zero exit code and an output file, and False
\* exactly when it timed out, exited non-zero without output, or an exception
\* was raised while preparing or running it
C3_Classification ==
    tool.outcome # "none" =>
      /\ success = "True" <=>
           \/ tool.outcome = "exit0"
           \/ tool.outcome = "exit_nonzero" /\ tool.output_exists
      /\ success = "False" <=>
           \/ tool.outcome = "timeout"
           \/ tool.outcome = "exit_nonzero" /\ ~tool.output_exists
           \/ tool.outcome \in {"error", "not_started"}

\* C4: the timeout computed for a file of size s is 480, 900, 2400, 3600 or
\* 5400 by the four thresholds, and is non-decreasing in s
C4_TimeoutSizing ==
    pc = "communicate" =>
      /\ timeout_seconds = ClaimedTimeout(file_size)
      /\ timeout_seconds \in {480, 900, 2400, 3600, 5400}
      /\ \A s \in SizeSamples :
           /\ s <= file_size => get_timeout(s) <= timeout_seconds
           /\ s >= file_size => get_timeout(s) >= timeout_seconds
C4_Witness ==
    pc = "communicate" /\ file_size = 150000 * KB /\ timeout_seconds = 900

\* C5: the tool is launched at most once per enumerated source, the sources
\* are taken in enumeration order, and document_index counts them by one
\* without exceeding total_documents
C5_LinearPipeline ==
    /\ \A r \in Pdfs : launches[r] <= 1
    /\ document_index <= total_documents
    /\ document_index = Len(handled)
    /\ handled = SubSeq(enumerated, 1, document_index)
C5_Witness ==
    /\ pc = "done"
    /\ document_index = 2
    /\ total_documents = 2
    /\ results[<<"a.pdf">>] = "False"
    /\ launches[<<"a.pdf">>] = 1
    /\ launches[<<"A", "B", "c.pdf">>] = 1

\* C6: when convert_to_pdfa has returned or raised, the process it started is
\* not running; at most one process is alive, and it is the current file's
C6_NoConcurrency ==
    /\ Cardinality(Running) <= 1
    /\ pc # "communicate" => Running = {}
    /\ pc = "communicate" => Running = {rel(source_file)}
C6_Witness ==
    /\ pc = "returned"
    /\ tool.outcome = "timeout"
    /\ process[rel(source_file)] = "exited"
    /\ document_index = 2

C8_CleanupConfined ==
    \A d \in red_removed :
      /\ Under(d, input_dir)
      /\ \E i \in 1..Len(handled) : IsPrefix(d, Parent(handled[i]))

\* C9: a prompt ends only on y or empty (clear) or on n or no (abort), and an
\* abort leaves the input tree and the declined directory as they were, with
\* no conversion launched
C9_AbortOnDecline ==
    /\ prompt.verdict \in {"clear", "abort"} =>
         /\ prompt.response \in {<<"y">>, <<>>, <<"n">>, <<"n", "o">>}
         /\ prompt.verdict = "clear" <=> prompt.response \in {<<"y">>, <<>>}
    /\ pc = "aborted" =>
         /\ \A r \in Pdfs : launches[r] = 0
         /\ \A x \in (files \cup files0) \cup (dirs \cup dirs0) :
              IsPrefix(input_dir, x) \/ IsPrefix(prompt.dir, x) =>
                (x \in files <=> x \in files0) /\ (x \in dirs <=> x \in dirs0)

\* C10: after a completed run in which every file deletion succeeds, input_dir
\* exists, holds no file and no sub-directory but ones named with PDFA_IN, and
\* no file that was not a *.pdf match has reached the output or error tree
C10_InputEmptied ==
    pc = "done" /\ locked = {} =>
      /\ input_dir \in dirs
      /\ \A f \in files : ~Under(f, input_dir)
      /\ \A d \in dirs : Under(d, input_dir) => ContainsPDFA_IN(Name(d))
      /\ \A r \in InputCands \ Pdfs :
           output_dir \o r \notin files /\ error_dir \o r \notin files

====
